---- MODULE Spec2Model ----
(***************************************************************************)
(* Model of the CDA500P1 taxi-demand notebooks:                            *)
(*   - 13_feature pipeline.ipynb, first notebook: the batch fetch of raw   *)
(*     rides (fetch_batch_raw_data), their transformation into an hourly   *)
(*     time series and the upload to the feature group;                    *)
(*   - 13_feature pipeline.ipynb, second notebook: the feature helpers     *)
(*     average_rides_last_4_weeks and TemporalFeatureEngineer, the         *)
(*     pipeline, the hyper-parameter search and the MLflow logging;        *)
(*   - 09_lightgbm_model.ipynb and the XGBoost notebook: split, fit,       *)
(*     predict, score, log.                                                *)
(* Datetimes are minutes since 2022-01-01 00:00 (a Saturday), on the real  *)
(* Gregorian calendar.                                                     *)
(***************************************************************************)
EXTENDS Integers, Sequences, FiniteSets, TLC

VARIABLES
    pc,             \* position of the notebook that is running
    source,         \* the taxi trip dataset: a sequence of rides
    source_tz,      \* timezone of the dataset's pickup_datetime column
    from_arg,       \* argument from_date of fetch_batch_raw_data
    to_arg,         \* argument to_date of fetch_batch_raw_data
    loads,          \* calls made to load_and_process_taxi_data: <<year, month>>
    rides,          \* dataframe returned by fetch_batch_raw_data
    rides_tz,       \* timezone of the returned pickup_datetime column
    error,          \* exception raised by the last call, "none" when none
    current_date,   \* current_date of the timeline cell
    fetch_data_from, \* fetch_data_from of the timeline cell
    fetch_data_to,  \* fetch_data_to of the timeline cell
    ts_data,        \* dataframe returned by transform_raw_data_into_ts_data
    feature_group,  \* rows inserted into the feature group
    batches,        \* the calls of a run of adjacent batches and their results
    X,              \* the dataframe object passed to a feature helper
    arg_X,          \* X as it was when the last helper was called
    result,         \* the dataframe returned by the last helper
    notebook,       \* the model notebook that is running
    df,             \* tabular_data.parquet as read by the split cell
    X_train, y_train, X_test, y_test,   \* returned by split_time_series_data
    fit_log,        \* the sets of rows (index labels) passed to a fit so far
    model,          \* the fitted model (model / best_model)
    predictions,    \* predictions of the logging cell
    test_mae,       \* test_mae of the logging cell
    logged          \* the arguments of log_model_to_mlflow

vars == <<pc, source, source_tz, from_arg, to_arg, loads, rides, rides_tz,
          error, current_date,
          fetch_data_from, fetch_data_to, ts_data, feature_group, batches,
          X, arg_X, result, notebook, df, X_train, y_train, X_test, y_test,
          fit_log, model, predictions, test_mae, logged>>

\* the variables of the feature notebook, of the feature helpers
fetchVars == <<source, source_tz, from_arg, to_arg, loads, rides, rides_tz,
               current_date,
               fetch_data_from, fetch_data_to, ts_data, feature_group,
               batches>>
helperVars == <<X, arg_X, result>>
trainVars == <<notebook, df, X_train, y_train, X_test, y_test, fit_log, model,
               predictions, test_mae, logged>>

(***************************************************************************)
(* Bounds of the model.                                                    *)
(***************************************************************************)
MaxRides == 2
MaxTick == 5
MaxRows == 4
MaxMissing == 1
MaxAwareRides == 1

\* pickup_location_id values of the modelled dataset
Locations == {1, 2}

(***************************************************************************)
(* Calendar: datetime arithmetic of the Python standard library.           *)
(***************************************************************************)
MinutesPerHour == 60
MinutesPerDay == 24 * 60

IsLeap(y) == (y % 4 = 0 /\ y % 100 # 0) \/ y % 400 = 0

DaysInMonth(y, m) ==
    IF m = 2 THEN (IF IsLeap(y) THEN 29 ELSE 28)
    ELSE IF m \in {4, 6, 9, 11} THEN 30 ELSE 31

RECURSIVE CivilFromDays(_, _, _)
\* <<year, month, day>> of the date d days after the first of month m of year y
CivilFromDays(d, y, m) ==
    IF d < DaysInMonth(y, m) THEN <<y, m, d + 1>>
    ELSE CivilFromDays(d - DaysInMonth(y, m),
                       IF m = 12 THEN y + 1 ELSE y,
                       IF m = 12 THEN 1 ELSE m + 1)

RECURSIVE DaysBefore(_, _)
\* days from 2022-01-01 to the first of month m of year y
DaysBefore(y, m) ==
    IF y = 2022 /\ m = 1 THEN 0
    ELSE IF m = 1 THEN DaysBefore(y - 1, 12) + 31
    ELSE DaysBefore(y, m - 1) + DaysInMonth(y, m - 1)

\* <<year, month, day>> of every day of 2022-2024, by days since 2022-01-01
Civil == [d \in 0..(3 * 366 - 3) |-> CivilFromDays(d, 2022, 1)]

\* datetime.year, datetime.month
Year(t) == Civil[t \div MinutesPerDay][1]
Month(t) == Civil[t \div MinutesPerDay][2]

\* datetime.fromisoformat on the fields <<year, month, day, hour, minute>>
FromIsoFormat(s) ==
    (DaysBefore(s[1], s[2]) + s[3] - 1) * MinutesPerDay
        + s[4] * MinutesPerHour + s[5]

\* datetime.isoformat: the fields of a datetime
IsoFormat(t) ==
    LET c == Civil[t \div MinutesPerDay]
    IN  <<c[1], c[2], c[3], (t % MinutesPerDay) \div MinutesPerHour,
          t % MinutesPerHour>>

\* a plausible slip: rounded to the nearest hour
RoundHour(t) == (t + 30) - ((t + 30) % MinutesPerHour)

\* Timestamp.floor("h")
FloorHour(t) == t - (t % MinutesPerHour)

\* Series.dt.hour, Series.dt.dayofweek (Monday = 0; 2022-01-01 is a Saturday)
HourOf(t) == (t % MinutesPerDay) \div MinutesPerHour
DayOfWeek(t) == ((t \div MinutesPerDay) + 5) % 7

\* timedelta(weeks=52), timedelta(days=29)
WEEKS52 == 52 * 7 * MinutesPerDay
DAYS29 == 29 * MinutesPerDay

(***************************************************************************)
(* Instants of the model: a grid starting 2023-01-02 00:00 with a step of  *)
(* 14 days 12 hours 30 minutes, so that the instants fall in January,      *)
(* February and March at different hours and minutes:                      *)
(*   0: 01-02 00:00   1: 01-16 12:30   2: 01-31 01:00                      *)
(*   3: 02-14 13:30   4: 03-01 02:00   5: 03-15 14:30                      *)
(***************************************************************************)
TickTime(k) == 366 * MinutesPerDay + k * ((14 * 24 + 12) * MinutesPerHour + 30)
Ticks == 0..MaxTick

(***************************************************************************)
(* Dataframes of rides: sequences of rows.  ride_id is the identity of     *)
(* the trip record in the dataset (its position there).                    *)
(***************************************************************************)
Ride(i, l, t) == [ride_id |-> i, pickup_location_id |-> l, pickup_datetime |-> t]

RECURSIVE SeqsUpTo(_, _)
\* the sequences over S of length at most n
SeqsUpTo(S, n) ==
    IF n = 0 THEN {<<>>}
    ELSE LET shorter == SeqsUpTo(S, n - 1)
         IN  shorter \cup {Append(s, x) : s \in shorter, x \in S}

\* the datasets the model draws from: rides at grid instants
Datasets ==
    LET cells == Locations \X Ticks
        picks == SeqsUpTo(cells, MaxRides)
    IN  {[i \in 1..Len(p) |-> Ride(i, p[i][1], TickTime(p[i][2]))] : p \in picks}

\* src.data_utils.load_and_process_taxi_data(year, months=[month]): the valid
\* records of that month of the dataset
load_and_process_taxi_data(data, year, month) ==
    LET InMonth(r) == Year(r.pickup_datetime) = year
                      /\ Month(r.pickup_datetime) = month
    IN  SelectSeq(data, InMonth)

\* a plausible slip: sorted by pickup_datetime only
RowLeqByTime(a, b) == a.pickup_datetime <= b.pickup_datetime

\* sort_values(by=['pickup_location_id', 'pickup_datetime'])
RowLeq(a, b) ==
    \/ a.pickup_location_id < b.pickup_location_id
    \/ /\ a.pickup_location_id = b.pickup_location_id
       /\ a.pickup_datetime <= b.pickup_datetime

RECURSIVE InsertSorted(_, _)
InsertSorted(s, r) ==
    IF s = <<>> THEN <<r>>
    ELSE IF RowLeq(Head(s), r) THEN <<Head(s)>> \o InsertSorted(Tail(s), r)
    ELSE <<r>> \o s

RECURSIVE SortValues(_)
SortValues(s) ==
    IF s = <<>> THEN <<>>
    ELSE InsertSorted(SortValues(SubSeq(s, 1, Len(s) - 1)), s[Len(s)])

(***************************************************************************)
(* fetch_batch_raw_data                                                    *)
(***************************************************************************)
\* an argument: a datetime, or its ISO string; t and iso are the clock time,
\* tz the tzinfo: "naive" for none, else "UTC" or "+05:30"
DatetimeArg(t) == [kind |-> "datetime", t |-> t, iso |-> <<>>, tz |-> "naive"]
StrArg(t) == [kind |-> "str", t |-> 0, iso |-> IsoFormat(t), tz |-> "naive"]

\* a timezone-aware datetime, the ISO string of one ("...+05:30")
AwareArg(t, tz) == [kind |-> "datetime", t |-> t, iso |-> <<>>, tz |-> tz]
AwareStrArg(t, tz) == [kind |-> "str", t |-> 0, iso |-> IsoFormat(t), tz |-> tz]

\* tzinfo.utcoffset, in minutes
UtcOffset(tz) == IF tz = "+05:30" THEN 5 * MinutesPerHour + 30 ELSE 0

\* datetime comparison is defined between two naive or two aware datetimes
Comparable(tz1, tz2) == (tz1 = "naive") <=> (tz2 = "naive")

\* lines 126-129: isinstance(x, str) -> datetime.fromisoformat(x)
ParseDate(arg) == IF arg.kind = "str" THEN FromIsoFormat(arg.iso) ELSE arg.t

\* a plausible slip: equal dates pass the check
InvalidRangeStrict(from_date, to_date) == from_date > to_date

\* line 131: the guard of the ValueError
InvalidRange(from_date, to_date) == from_date >= to_date

\* lines 135-136: shift back by 52 weeks (tzinfo removed)
Historical(date) == date - WEEKS52

\* a plausible slip: the clock time converted to UTC before tzinfo is dropped
AsUtcNaive(clock, tz) == clock - UtcOffset(tz)

\* lines 135-136: .replace(tzinfo=None) keeps the clock time
ReplaceTzinfoNone(clock, tz) == clock

\* a plausible slip: the column keeps its timezone
TzKept(tz) == tz

\* lines 139, 144: Series.dt.tz_localize(None), the timezone of the result
\* (the clock times of the column are kept)
TzLocalizeNone(tz) == "naive"

\* lines 138-140
RidesFrom(data, historical_from_date) ==
    LET NotBefore(r) == r.pickup_datetime >= historical_from_date
    IN  SelectSeq(load_and_process_taxi_data(data, Year(historical_from_date),
                                           Month(historical_from_date)),
               NotBefore)

\* line 142
LoadsSecondMonth(historical_from_date, historical_to_date) ==
    Month(historical_to_date) # Month(historical_from_date)

\* lines 143-145
RidesTo(data, historical_to_date) ==
    LET Before(r) == r.pickup_datetime < historical_to_date
    IN  SelectSeq(load_and_process_taxi_data(data, Year(historical_to_date),
                                           Month(historical_to_date)),
               Before)

\* a plausible slip: a year of 365 days instead of 52 weeks
ShiftForwardYear(s) ==
    [i \in 1..Len(s) |->
        [s[i] EXCEPT !.pickup_datetime = @ + 365 * MinutesPerDay]]

\* line 150: rides['pickup_datetime'] += timedelta(weeks=52)
ShiftForward(s) ==
    [i \in 1..Len(s) |-> [s[i] EXCEPT !.pickup_datetime = @ + WEEKS52]]

\* lines 135-153: the body after the range check
FetchedRides(data, from_date, to_date) ==
    LET historical_from_date == Historical(from_date)
        historical_to_date == Historical(to_date)
        rides_from == RidesFrom(data, historical_from_date)
        combined ==
            IF LoadsSecondMonth(historical_from_date, historical_to_date)
            THEN rides_from \o RidesTo(data, historical_to_date)
            ELSE rides_from
    IN  SortValues(ShiftForward(combined))

\* lines 138, 143: the calls to load_and_process_taxi_data, in order
LoadCalls(from_date, to_date) ==
    LET historical_from_date == Historical(from_date)
        historical_to_date == Historical(to_date)
    IN  <<  <<Year(historical_from_date), Month(historical_from_date)>>  >>
        \o (IF LoadsSecondMonth(historical_from_date, historical_to_date)
            THEN <<  <<Year(historical_to_date), Month(historical_to_date)>>  >>
            ELSE <<>>)

\* the arguments the model calls fetch_batch_raw_data with: grid instants one
\* year after the dataset's, as datetimes or as ISO strings
DateArgs ==
    {DatetimeArg(TickTime(k) + WEEKS52) : k \in Ticks}
        \cup {StrArg(TickTime(k) + WEEKS52) : k \in Ticks}

\* the instant of an argument: its clock time less its UTC offset
Instant(arg) == ParseDate(arg) - UtcOffset(arg.tz)

\* fetch_batch_raw_data(from_date, to_date), lines 125-153.  The comparison of
\* line 131 is by instant; lines 135-136 drop the tzinfo of the bounds and
\* lines 139, 144 that of the column before lines 140, 145 compare them.
fetch_batch_raw_data(f, t) ==
    /\ from_arg' = f
    /\ to_arg' = t
    /\ IF ~Comparable(f.tz, t.tz)
       THEN /\ error' = "TypeError: can't compare offset-naive and offset-aware datetimes"
            /\ loads' = <<>>
            /\ rides' = <<>>
            /\ rides_tz' = "naive"
       ELSE IF InvalidRange(Instant(f), Instant(t))
       THEN /\ error' = "ValueError: 'from_date' must be earlier than 'to_date'."
            /\ loads' = <<>>
            /\ rides' = <<>>
            /\ rides_tz' = "naive"
       ELSE LET from_clock == ReplaceTzinfoNone(ParseDate(f), f.tz)
                to_clock == ReplaceTzinfoNone(ParseDate(t), t.tz)
            IN  IF ~Comparable(TzLocalizeNone(source_tz), "naive")
                THEN /\ error' = "TypeError: Invalid comparison between dtype=datetime64[ns, UTC] and datetime"
                     /\ loads' = <<LoadCalls(from_clock, to_clock)[1]>>
                     /\ rides' = <<>>
                     /\ rides_tz' = "naive"
                ELSE /\ error' = "none"
                     /\ loads' = LoadCalls(from_clock, to_clock)
                     /\ rides' = FetchedRides(source, from_clock, to_clock)
                     /\ rides_tz' = TzLocalizeNone(source_tz)

\* a call of fetch_batch_raw_data with arbitrary arguments
CallFetch ==
    /\ pc = "start"
    /\ \E f \in DateArgs, t \in DateArgs : fetch_batch_raw_data(f, t)
    /\ pc' = "fetched"
    /\ UNCHANGED <<source, source_tz, current_date, fetch_data_from,
                   fetch_data_to, ts_data, feature_group, batches>>
    /\ UNCHANGED <<helperVars, trainVars>>

(***************************************************************************)
(* The feature notebook: timeline cell, fetch cell, insert cell.           *)
(***************************************************************************)
\* the times the notebook is run at: grid instants one year after the dataset's
RunTimes == {TickTime(k) + WEEKS52 : k \in Ticks}

\* lines 71-74: current_date, a UTC timestamp floored to the hour, and the 29
\* days before it
TimelineCell ==
    /\ pc = "start"
    /\ \E now \in RunTimes :
         /\ current_date' = FloorHour(now)
         /\ fetch_data_to' = FloorHour(now)
         /\ fetch_data_from' = FloorHour(now) - DAYS29
    /\ pc' = "timeline"
    /\ UNCHANGED <<source, source_tz, from_arg, to_arg, loads, rides, rides_tz,
                   error, ts_data, feature_group, batches>>
    /\ UNCHANGED <<helperVars, trainVars>>

RECURSIVE SortedSeq(_)
\* the elements of a set of integers in ascending order
SortedSeq(S) ==
    IF S = {} THEN <<>>
    ELSE LET least == CHOOSE x \in S : \A y \in S : x <= y
         IN  <<least>> \o SortedSeq(S \ {least})

\* src.data_utils.transform_raw_data_into_ts_data: pickup_datetime floored to
\* the hour, rides counted per (pickup_hour, pickup_location_id), the slots
\* without a ride filled with 0 over the full range of hours and all the
\* locations of the dataframe, sorted by location and hour
transform_raw_data_into_ts_data(rows) ==
    IF rows = <<>> THEN <<>>
    ELSE
    LET hours == SortedSeq({FloorHour(rows[i].pickup_datetime) : i \in DOMAIN rows})
        first == hours[1]
        nHours == (hours[Len(hours)] - first) \div MinutesPerHour + 1
        locs == SortedSeq({rows[i].pickup_location_id : i \in DOMAIN rows})
        Count(h, l) ==
            Cardinality({i \in DOMAIN rows :
                            /\ FloorHour(rows[i].pickup_datetime) = h
                            /\ rows[i].pickup_location_id = l})
    IN  [k \in 1..(Len(locs) * nHours) |->
            LET l == locs[((k - 1) \div nHours) + 1]
                h == first + ((k - 1) % nHours) * MinutesPerHour
            IN  [pickup_hour |-> h, pickup_location_id |-> l,
                 rides |-> Count(h, l)]]

\* lines 156-160: rides = fetch_batch_raw_data(fetch_data_from, fetch_data_to);
\* ts_data = transform_raw_data_into_ts_data(rides)
FetchCell ==
    /\ pc = "timeline"
    /\ fetch_batch_raw_data(AwareArg(fetch_data_from, "UTC"),
                            AwareArg(fetch_data_to, "UTC"))
    /\ IF error' = "none"
       THEN /\ ts_data' = transform_raw_data_into_ts_data(rides')
            /\ pc' = "transformed"
       ELSE /\ ts_data' = ts_data
            /\ pc' = "failed"
    /\ UNCHANGED <<source, source_tz, current_date, fetch_data_from,
                   fetch_data_to, feature_group, batches>>
    /\ UNCHANGED <<helperVars, trainVars>>

\* line 244: feature_group.insert(ts_data)
InsertCell ==
    /\ pc = "transformed"
    /\ feature_group' = ts_data
    /\ pc' = "inserted"
    /\ UNCHANGED <<source, source_tz, from_arg, to_arg, loads, rides, rides_tz,
                   error, current_date, fetch_data_from, fetch_data_to,
                   ts_data, batches>>
    /\ UNCHANGED <<helperVars, trainVars>>

NoArg == [kind |-> "none", t |-> 0, iso |-> <<>>, tz |-> "naive"]
NoFrame == [cols |-> {}, rows |-> <<>>]

\* the feature notebook before its first cell, for a given dataset
FetchIdle(data) ==
    /\ source = data
    /\ rides_tz = "naive"
    /\ from_arg = NoArg
    /\ to_arg = NoArg
    /\ loads = <<>>
    /\ rides = <<>>
    /\ current_date = 0
    /\ fetch_data_from = 0
    /\ fetch_data_to = 0
    /\ ts_data = <<>>
    /\ feature_group = <<>>
    /\ batches = <<>>

\* no feature helper called
HelpersIdle ==
    /\ X = NoFrame
    /\ arg_X = NoFrame
    /\ result = NoFrame

NoModel == [kind |-> "none"]
NoScore == [num |-> 0, den |-> 0]
NoLog == [model |-> NoModel]

\* the model notebook nb before its first cell
TrainIdle(nb) ==
    /\ notebook = nb
    /\ df = NoFrame
    /\ X_train = NoFrame
    /\ y_train = <<>>
    /\ X_test = NoFrame
    /\ y_test = <<>>
    /\ fit_log = {}
    /\ model = NoModel
    /\ predictions = <<>>
    /\ test_mae = NoScore
    /\ logged = NoLog

InitFetch ==
    /\ pc = "start"
    /\ error = "none"
    /\ \E data \in Datasets : FetchIdle(data)
    /\ source_tz = "naive"
    /\ HelpersIdle
    /\ TrainIdle("none")

NextFetch == CallFetch \/ TimelineCell \/ FetchCell \/ InsertCell

SpecFetch == InitFetch /\ [][NextFetch]_vars

(***************************************************************************)
(* Claims about fetch_batch_raw_data, checked under SpecFetch.             *)
(***************************************************************************)
\* fetch_batch_raw_data has been called (directly or by the fetch cell)
Called == pc \in {"fetched", "transformed", "inserted", "failed"}
Returned == Called /\ error = "none"

\* the fields <<year, month, day, hour, minute>> of an argument, and their
\* chronological (lexicographic) order
ArgFields(arg) == IF arg.kind = "str" THEN arg.iso ELSE IsoFormat(arg.t)

RECURSIVE LexLess(_, _)
LexLess(a, b) ==
    IF a = <<>> THEN FALSE
    ELSE Head(a) < Head(b) \/ (Head(a) = Head(b) /\ LexLess(Tail(a), Tail(b)))

\* C1: every ride returned by fetch_batch_raw_data(from_date, to_date) has
\* from_date <= pickup_datetime < to_date, also when both shifted dates fall in
\* the same calendar month.
C1_OnlySpecifiedTimeline ==
    Returned =>
        \A i \in DOMAIN rides :
            /\ ParseDate(from_arg) <= rides[i].pickup_datetime
            /\ rides[i].pickup_datetime < ParseDate(to_arg)

\* C2: when from_date >= to_date (ISO strings parsed) the call raises the
\* ValueError, before any call to load_and_process_taxi_data, and returns no
\* data.
C2_InvalidRangeRaises ==
    (Called /\ ~LexLess(ArgFields(from_arg), ArgFields(to_arg))) =>
        /\ error = "ValueError: 'from_date' must be earlier than 'to_date'."
        /\ loads = <<>>
        /\ rides = <<>>

\* C2 witness: a call with from_date equal to to_date, one of them an ISO
\* string, has raised.
C2_Witness ==
    /\ pc = "fetched"
    /\ from_arg.kind = "str"
    /\ to_arg.kind = "datetime"
    /\ ArgFields(from_arg) = ArgFields(to_arg)
    /\ error # "none"
    /\ source # <<>>

\* C9: every ride of the dataset whose pickup time lies in
\* [from_date - 52 weeks, to_date - 52 weeks) is in the result.
C9_Complete ==
    Returned =>
        \A j \in DOMAIN source :
            (/\ ParseDate(from_arg) - 364 * MinutesPerDay
                    <= source[j].pickup_datetime
             /\ source[j].pickup_datetime
                    < ParseDate(to_arg) - 364 * MinutesPerDay)
            => \E i \in DOMAIN rides : rides[i].ride_id = j

\* C10: every returned ride carries its source pickup time plus exactly 52
\* weeks (364 days), hence the same day of week and hour of day, and is
\* returned once.
C10_ShiftedOnceBy52Weeks ==
    Returned =>
        /\ \A i \in DOMAIN rides :
              LET src == source[rides[i].ride_id]
              IN  /\ rides[i].pickup_datetime
                        = src.pickup_datetime + 364 * MinutesPerDay
                  /\ rides[i].pickup_location_id = src.pickup_location_id
                  /\ DayOfWeek(rides[i].pickup_datetime)
                        = DayOfWeek(src.pickup_datetime)
                  /\ HourOf(rides[i].pickup_datetime) = HourOf(src.pickup_datetime)
        /\ \A i, k \in DOMAIN rides : rides[i].ride_id = rides[k].ride_id => i = k

\* C10 witness: a call that loaded two months and returned rides of both.
C10_Witness ==
    /\ Returned
    /\ Len(loads) = 2
    /\ \E i, k \in DOMAIN rides :
          Month(rides[i].pickup_datetime) # Month(rides[k].pickup_datetime)

\* C8: the hourly rows uploaded to the feature group are the hours of the
\* fetch window: one row per (pickup_location_id, pickup_hour), every
\* pickup_hour inside [fetch_data_from, fetch_data_to), hence at most 696 rows
\* for each location of the 29-day window, each with its count of rides.
C8_OneRowPerWindowHour ==
    pc = "inserted" =>
        /\ \A i \in DOMAIN feature_group :
              /\ fetch_data_from <= feature_group[i].pickup_hour
              /\ feature_group[i].pickup_hour < fetch_data_to
              /\ feature_group[i].pickup_hour % MinutesPerHour = 0
              /\ feature_group[i].rides >= 0
        /\ \A i, k \in DOMAIN feature_group :
              (/\ feature_group[i].pickup_hour = feature_group[k].pickup_hour
               /\ feature_group[i].pickup_location_id
                     = feature_group[k].pickup_location_id) => i = k
        /\ \A l \in Locations :
              Cardinality({i \in DOMAIN feature_group :
                              feature_group[i].pickup_location_id = l}) <= 696

\* C13: the returned rows are in ascending order of pickup_location_id and,
\* within a pickup_location_id, of pickup_datetime, for one month loaded or
\* two.
C13_SortedByLocationAndTime ==
    Returned =>
        \A i, k \in DOMAIN rides :
            i < k =>
                \/ rides[i].pickup_location_id < rides[k].pickup_location_id
                \/ /\ rides[i].pickup_location_id = rides[k].pickup_location_id
                   /\ rides[i].pickup_datetime <= rides[k].pickup_datetime

\* C13 witness: two months were loaded and a ride of the second month, of a
\* smaller pickup_location_id, comes before a ride of the first month.
C13_Witness ==
    /\ Returned
    /\ Len(loads) = 2
    /\ \E i, k \in DOMAIN rides :
          /\ i < k
          /\ rides[i].pickup_location_id < rides[k].pickup_location_id
          /\ Month(rides[i].pickup_datetime - 364 * MinutesPerDay) = loads[2][2]
          /\ Month(rides[k].pickup_datetime - 364 * MinutesPerDay) = loads[1][2]

\* the timeline cell of the feature notebook has run
TimelineSet == pc \in {"timeline", "transformed", "inserted", "failed"}

\* C14: in the feature notebook fetch_data_to is the run time floored to the
\* whole hour and fetch_data_from is exactly 29 days (696 hours) earlier, so
\* fetch_data_from < fetch_data_to at every run time, and the call
\* fetch_batch_raw_data(fetch_data_from, fetch_data_to) does not raise the
\* ValueError of an inverted range.
C14_TimelineWindow ==
    TimelineSet =>
        /\ fetch_data_to = current_date
        /\ fetch_data_to % 60 = 0
        /\ \E now \in RunTimes :
              fetch_data_to <= now /\ now < fetch_data_to + 60
        /\ fetch_data_to - fetch_data_from = 696 * 60
        /\ fetch_data_from < fetch_data_to
        /\ pc # "timeline" =>
              /\ ParseDate(from_arg) = fetch_data_from
              /\ ParseDate(to_arg) = fetch_data_to
              /\ error # "ValueError: 'from_date' must be earlier than 'to_date'."
              /\ pc # "failed"

\* C14 witness: the notebook, run at half past an hour, has fetched rides for
\* its window.
C14_Witness ==
    /\ pc = "transformed"
    /\ fetch_data_to + 30 \in RunTimes
    /\ from_arg.tz = "UTC"
    /\ rides # <<>>

(***************************************************************************)
(* Adjacent batches: fetch_batch_raw_data(a, b), then (b, c), then (a, c), *)
(* for a < b < c, on the same dataset.                                     *)
(***************************************************************************)
\* one call of the run; each call is recorded with what it returned
CallBatch ==
    /\ pc \in {"start", "batch 1", "batch 2"}
    /\ \E f \in DateArgs, t \in DateArgs :
         /\ pc = "batch 1" => f = to_arg
         /\ pc = "batch 2" => (f = batches[1].from_date /\ t = to_arg)
         /\ ParseDate(f) < ParseDate(t)
         /\ fetch_batch_raw_data(f, t)
         /\ batches' = Append(batches, [from_date |-> f, to_date |-> t,
                                        error |-> error', rides |-> rides'])
    /\ pc' = IF pc = "start" THEN "batch 1"
             ELSE IF pc = "batch 1" THEN "batch 2" ELSE "batch 3"
    /\ UNCHANGED <<source, source_tz, current_date, fetch_data_from,
                   fetch_data_to, ts_data, feature_group>>
    /\ UNCHANGED <<helperVars, trainVars>>

NextBatches == CallBatch

SpecBatches == InitFetch /\ [][NextBatches]_vars

\* the rides returned by call k of the run
BatchRides(k) == {batches[k].rides[i] : i \in DOMAIN batches[k].rides}

\* C11: for a < b < c the batches (a, b) and (b, c) have no ride in common and
\* together hold exactly the rides of the batch (a, c).
C11_AdjacentBatchesTile ==
    pc = "batch 3" =>
        /\ \A k \in 1..3 : batches[k].error = "none"
        /\ BatchRides(1) \cap BatchRides(2) = {}
        /\ BatchRides(1) \cup BatchRides(2) = BatchRides(3)

(***************************************************************************)
(* Timezone-aware arguments: calls of fetch_batch_raw_data with aware and  *)
(* naive dates, on datasets whose pickup_datetime column is naive or UTC;  *)
(* the notebook's own call passes UTC timestamps.                          *)
(***************************************************************************)
\* the timezones the dataset's pickup_datetime column may have
ColumnTz == {"naive", "UTC"}

\* timezone-aware arguments: UTC timestamps, ISO strings with an offset
AwareArgs ==
    {AwareArg(TickTime(k) + WEEKS52, "UTC") : k \in Ticks}
        \cup {AwareStrArg(TickTime(k) + WEEKS52, tz) :
                 k \in Ticks, tz \in {"UTC", "+05:30"}}

CallFetchAware ==
    /\ pc = "start"
    /\ \E f \in AwareArgs \cup DateArgs, t \in AwareArgs \cup DateArgs :
         fetch_batch_raw_data(f, t)
    /\ pc' = "fetched"
    /\ UNCHANGED <<source, source_tz, current_date, fetch_data_from,
                   fetch_data_to, ts_data, feature_group, batches>>
    /\ UNCHANGED <<helperVars, trainVars>>

InitAware ==
    /\ pc = "start"
    /\ error = "none"
    /\ \E data \in {d \in Datasets : Len(d) <= MaxAwareRides} : FetchIdle(data)
    /\ source_tz \in ColumnTz
    /\ HelpersIdle
    /\ TrainIdle("none")

NextAware == CallFetchAware \/ TimelineCell \/ FetchCell

SpecAware == InitAware /\ [][NextAware]_vars

\* C12: for timezone-aware from_date and to_date the call never fails on a
\* naive/aware comparison (the only error is the ValueError of an inverted
\* range, judged by instant); the shifted bounds are the clock times of the
\* arguments less 52 weeks, not converted to UTC: they decide the months
\* loaded and the rides kept; and the returned pickup_datetime column is
\* timezone-naive, whatever the timezone of the dataset's column.
C12_AwareDatesNeverFail ==
    (Called /\ from_arg.tz # "naive" /\ to_arg.tz # "naive") =>
        LET from_clock == ParseDate(from_arg)
            to_clock == ParseDate(to_arg)
            from_utc == from_clock - (IF from_arg.tz = "+05:30" THEN 330 ELSE 0)
            to_utc == to_clock - (IF to_arg.tz = "+05:30" THEN 330 ELSE 0)
        IN  /\ from_utc >= to_utc =>
                  error = "ValueError: 'from_date' must be earlier than 'to_date'."
            /\ from_utc < to_utc =>
                  /\ error = "none"
                  /\ rides_tz = "naive"
                  /\ loads[1] = <<Year(from_clock - 364 * MinutesPerDay),
                                  Month(from_clock - 364 * MinutesPerDay)>>
                  /\ Len(loads) = 2 =>
                        loads[2] = <<Year(to_clock - 364 * MinutesPerDay),
                                     Month(to_clock - 364 * MinutesPerDay)>>
                  /\ \A i \in DOMAIN rides :
                        /\ rides[i].pickup_datetime >= from_clock
                        /\ rides[i].pickup_datetime
                              = source[rides[i].ride_id].pickup_datetime
                                  + 364 * MinutesPerDay
                        /\ (Len(loads) = 2
                            /\ Month(rides[i].pickup_datetime - 364 * MinutesPerDay)
                                  = loads[2][2])
                              => rides[i].pickup_datetime < to_clock

\* C12 witness: a call with an ISO string at +05:30 whose shifted clock time
\* and shifted UTC time fall in different months returned rides of a dataset
\* whose column is in UTC.
C12_Witness ==
    /\ pc = "fetched"
    /\ error = "none"
    /\ from_arg.tz = "+05:30"
    /\ to_arg.tz = "UTC"
    /\ source_tz = "UTC"
    /\ rides # <<>>
    /\ Month(ParseDate(from_arg) - 364 * MinutesPerDay)
          # Month(ParseDate(from_arg) - 364 * MinutesPerDay - 330)

(***************************************************************************)
(* Dataframes of the model notebooks.  A frame is its set of columns and   *)
(* its rows; a row is its index label and its values by column.  The mean  *)
(* of a row is kept exact, as the fraction num / den.                      *)
(***************************************************************************)
\* lines 376-379: f"rides_t-{7*24}", ..., f"rides_t-{28*24}", in this order
last_4_weeks_columns ==
    <<"rides_t-168", "rides_t-336", "rides_t-504", "rides_t-672">>

\* the columns of X_train / X_test: lagged rides, pickup_hour, pickup_location_id
FeatureCols ==
    {"rides_t-672", "rides_t-504", "rides_t-336", "rides_t-168", "rides_t-1",
     "pickup_hour", "pickup_location_id"}

\* columns a helper adds
DerivedCols == {"average_rides_last_4_weeks", "hour", "day_of_week"}

\* sample rows of tabular_data.parquet around the cut-off of 2023-09-01:
\* <<rides_t-672, rides_t-504, rides_t-336, rides_t-168, rides_t-1,
\*   pickup_hour, pickup_location_id, target>>
SampleData ==
    << <<4, 2, 5, 3, 6, <<2023, 8, 30, 22, 0>>, 1, 5>>,
       <<0, 0, 0, 0, 1, <<2023, 8, 31, 23, 0>>, 1, 2>>,
       <<2, 1, 1, 7, 3, <<2023, 8, 31, 23, 0>>, 2, 0>>,
       <<4, 4, 4, 4, 4, <<2023, 9, 1, 0, 0>>, 1, 4>>,
       <<5, 3, 2, 1, 0, <<2023, 9, 1, 0, 0>>, 2, 9>>,
       <<0, 1, 0, 8, 2, <<2023, 9, 3, 13, 0>>, 1, 3>> >>

\* the values of sample row k by column; the derived columns, when a frame
\* already has them, hold values left by an earlier computation
SampleValues(k) ==
    LET d == SampleData[k]
    IN  ("rides_t-672" :> d[1]) @@ ("rides_t-504" :> d[2])
        @@ ("rides_t-336" :> d[3]) @@ ("rides_t-168" :> d[4])
        @@ ("rides_t-1" :> d[5]) @@ ("pickup_hour" :> FromIsoFormat(d[6]))
        @@ ("pickup_location_id" :> d[7]) @@ ("target" :> d[8])
        @@ ("average_rides_last_4_weeks" :> [num |-> 6, den |-> 4])
        @@ ("hour" :> 12) @@ ("day_of_week" :> 0)

\* df[columns]: the frame restricted to some of its columns
Project(frame, cols) ==
    [cols |-> cols,
     rows |-> [i \in DOMAIN frame.rows |->
                 [id |-> frame.rows[i].id,
                  v |-> [c \in cols |-> frame.rows[i].v[c]]]]]

RECURSIVE SubSeqs(_, _)
\* the ascending sequences of at most n elements of 1..k
SubSeqs(k, n) ==
    IF k = 0 \/ n = 0 THEN {<<>>}
    ELSE SubSeqs(k - 1, n) \cup {Append(q, k) : q \in SubSeqs(k - 1, n - 1)}

\* the frame of the sample rows picked, with the given columns
SampleFrame(picked, cols) ==
    [cols |-> cols,
     rows |-> [i \in DOMAIN picked |->
                 [id |-> picked[i],
                  v |-> [c \in cols |-> SampleValues(picked[i])[c]]]]]

\* the frames a helper is called with: up to MaxRows sample rows, up to
\* MaxMissing feature columns missing, any derived columns already there
InputFrames ==
    {SampleFrame(picked, (FeatureCols \ missing) \cup extra) :
        picked \in SubSeqs(Len(SampleData), MaxRows),
        missing \in {m \in SUBSET FeatureCols : Cardinality(m) <= MaxMissing},
        extra \in SUBSET DerivedCols}

RECURSIVE SumOver(_, _)
\* the sum of the values of a row over a sequence of columns
SumOver(v, columns) ==
    IF columns = <<>> THEN 0
    ELSE v[Head(columns)] + SumOver(v, Tail(columns))

(***************************************************************************)
(* average_rides_last_4_weeks, lines 374-390                               *)
(***************************************************************************)
\* a plausible slip: the message names the first required column
FirstMissingNamesFirst(columns, have) ==
    IF \A i \in DOMAIN columns : columns[i] \in have THEN "" ELSE columns[1]

\* lines 383-385: the first required column that X lacks, "" when none
RECURSIVE FirstMissing(_, _)
FirstMissing(columns, have) ==
    IF columns = <<>> THEN ""
    ELSE IF Head(columns) \notin have THEN Head(columns)
    ELSE FirstMissing(Tail(columns), have)

\* a plausible slip: the last hour instead of the week-old lag
RowMeanLastHour(v) ==
    [num |-> SumOver(v, <<"rides_t-1", "rides_t-336", "rides_t-504",
                          "rides_t-672">>),
     den |-> Len(last_4_weeks_columns)]

\* line 388: X[last_4_weeks_columns].mean(axis=1), for one row
RowMean(v) ==
    [num |-> SumOver(v, last_4_weeks_columns),
     den |-> Len(last_4_weeks_columns)]

\* line 388: the frame with average_rides_last_4_weeks assigned
AverageFrame(frame) ==
    LET cols == frame.cols \cup {"average_rides_last_4_weeks"}
    IN  [cols |-> cols,
         rows |-> [i \in DOMAIN frame.rows |->
                     [id |-> frame.rows[i].id,
                      v |-> [c \in cols |->
                               IF c = "average_rides_last_4_weeks"
                               THEN RowMean(frame.rows[i].v)
                               ELSE frame.rows[i].v[c]]]]]

\* average_rides_last_4_weeks(X): X is modified in place and returned
average_rides_last_4_weeks ==
    LET missing == FirstMissing(last_4_weeks_columns, X.cols)
    IN  /\ arg_X' = X
        /\ IF missing # ""
           THEN /\ error' = "ValueError: Missing required column: " \o missing
                /\ X' = X
                /\ result' = NoFrame
           ELSE /\ error' = "none"
                /\ X' = AverageFrame(X)
                /\ result' = X'

(***************************************************************************)
(* TemporalFeatureEngineer.transform, lines 416-421                        *)
(***************************************************************************)
\* line 421: the columns dropped
TemporalDropped == {"pickup_hour", "pickup_location_id"}

\* a plausible slip: isoweekday (Monday = 1) for dayofweek
TemporalValueIso(v, c) ==
    IF c = "hour" THEN HourOf(v["pickup_hour"])
    ELSE IF c = "day_of_week" THEN DayOfWeek(v["pickup_hour"]) + 1
    ELSE v[c]

\* lines 418-419: the value of column c of the returned row
TemporalValue(v, c) ==
    IF c = "hour" THEN HourOf(v["pickup_hour"])
    ELSE IF c = "day_of_week" THEN DayOfWeek(v["pickup_hour"])
    ELSE v[c]

\* the frame transform returns for a frame with both dropped columns
TemporalFrame(frame) ==
    LET cols == (frame.cols \cup {"hour", "day_of_week"}) \ TemporalDropped
    IN  [cols |-> cols,
         rows |-> [i \in DOMAIN frame.rows |->
                     [id |-> frame.rows[i].id,
                      v |-> [c \in cols |-> TemporalValue(frame.rows[i].v, c)]]]]

\* TemporalFeatureEngineer.transform(X): works on a copy of X
TemporalFeatureEngineer_transform ==
    /\ arg_X' = X
    /\ X' = X
    /\ IF "pickup_hour" \notin X.cols
       THEN /\ error' = "KeyError: 'pickup_hour'"
            /\ result' = NoFrame
       ELSE IF ~(TemporalDropped \subseteq X.cols)
       THEN /\ error' = "KeyError: \"['pickup_location_id'] not found in axis\""
            /\ result' = NoFrame
       ELSE /\ error' = "none"
            /\ result' = TemporalFrame(X)

\* the helper is called on a frame, or on the frame an earlier call of
\* average_rides_last_4_weeks modified (as Pipeline.fit and .predict do)
CallAverage ==
    /\ pc \in {"start", "averaged"}
    /\ error = "none"
    /\ average_rides_last_4_weeks
    /\ pc' = IF pc = "start" THEN "averaged" ELSE "averaged again"
    /\ UNCHANGED <<fetchVars, trainVars>>

CallTransform ==
    /\ pc \in {"start", "averaged", "averaged again"}
    /\ error = "none"
    /\ TemporalFeatureEngineer_transform
    /\ pc' = "engineered"
    /\ UNCHANGED <<fetchVars, trainVars>>

InitFeatures ==
    /\ pc = "start"
    /\ error = "none"
    /\ FetchIdle(<<>>)
    /\ source_tz = "naive"
    /\ X \in InputFrames
    /\ arg_X = NoFrame
    /\ result = NoFrame
    /\ TrainIdle("none")

NextFeatures == CallAverage \/ CallTransform

SpecFeatures == InitFeatures /\ [][NextFeatures]_vars

(***************************************************************************)
(* Claims about the feature helpers, checked under SpecFeatures.           *)
(***************************************************************************)
AverageCalled == pc \in {"averaged", "averaged again"}
LagCols == {"rides_t-168", "rides_t-336", "rides_t-504", "rides_t-672"}

\* C3: when X lacks one of rides_t-168, rides_t-336, rides_t-504, rides_t-672,
\* average_rides_last_4_weeks raises a ValueError naming a column that is
\* missing, and X is left unchanged: no average_rides_last_4_weeks column is
\* added.
C3_MissingColumnRaises ==
    (AverageCalled /\ ~(LagCols \subseteq arg_X.cols)) =>
        /\ \E c \in LagCols \ arg_X.cols :
              error = "ValueError: Missing required column: " \o c
        /\ X = arg_X
        /\ result = NoFrame

\* C3 witness: the call raised on a frame with rows that lacks rides_t-504 and
\* has no average column.
C3_Witness ==
    /\ AverageCalled
    /\ error = "ValueError: Missing required column: rides_t-504"
    /\ "rides_t-168" \in arg_X.cols
    /\ "average_rides_last_4_weeks" \notin X.cols
    /\ Len(X.rows) > 1

\* the part of C4 that holds of every frame with the four lag columns: same
\* rows, every original column but average_rides_last_4_weeks unchanged, and
\* average_rides_last_4_weeks the mean of the four lags
AverageComputed ==
    /\ error = "none"
    /\ result = X
    /\ result.cols = arg_X.cols \cup {"average_rides_last_4_weeks"}
    /\ Len(result.rows) = Len(arg_X.rows)
    /\ \A i \in DOMAIN arg_X.rows :
          LET old == arg_X.rows[i].v
              new == result.rows[i].v
          IN  /\ result.rows[i].id = arg_X.rows[i].id
              /\ \A c \in arg_X.cols \ {"average_rides_last_4_weeks"} :
                    new[c] = old[c]
              /\ new["average_rides_last_4_weeks"].den = 4
              /\ new["average_rides_last_4_weeks"].num
                    = old["rides_t-168"] + old["rides_t-336"]
                        + old["rides_t-504"] + old["rides_t-672"]

\* C4 (as stated): with the four lag columns present the returned frame has
\* the same rows, all the original columns with their values, plus one column
\* average_rides_last_4_weeks holding the mean of the four lags.
C4_OriginalColumnsPlusOne ==
    (AverageCalled /\ LagCols \subseteq arg_X.cols) =>
        /\ AverageComputed
        /\ Cardinality(result.cols) = Cardinality(arg_X.cols) + 1
        /\ \A i \in DOMAIN arg_X.rows : \A c \in arg_X.cols :
              result.rows[i].v[c] = arg_X.rows[i].v[c]

\* C4 (amended): with the four lag columns present the returned frame (X
\* itself) has the same rows and every original column other than
\* average_rides_last_4_weeks with its values, and its column
\* average_rides_last_4_weeks, added or overwritten, holds the mean of the
\* four lags.
C4_AverageAddedOrOverwritten ==
    (AverageCalled /\ LagCols \subseteq arg_X.cols) => AverageComputed

\* C4 witness: the column was added to a frame of several rows that did not
\* have it, with a mean that is not a whole number.
C4_Witness ==
    /\ pc = "averaged"
    /\ error = "none"
    /\ "average_rides_last_4_weeks" \notin arg_X.cols
    /\ Len(result.rows) > 1
    /\ \E i \in DOMAIN result.rows :
          result.rows[i].v["average_rides_last_4_weeks"].num % 4 # 0

\* the part of C5 that holds of every frame with pickup_hour and
\* pickup_location_id
TemporalComputed(kept) ==
    /\ error = "none"
    /\ X = arg_X
    /\ Len(result.rows) = Len(arg_X.rows)
    /\ "pickup_hour" \notin result.cols
    /\ "pickup_location_id" \notin result.cols
    /\ {"hour", "day_of_week"} \subseteq result.cols
    /\ kept \subseteq result.cols
    /\ \A i \in DOMAIN arg_X.rows :
          LET old == arg_X.rows[i].v
              new == result.rows[i].v
          IN  /\ \A c \in kept : new[c] = old[c]
              /\ new["hour"] \in 0..23
              /\ new["hour"] = IsoFormat(old["pickup_hour"])[4]
              /\ new["day_of_week"] \in 0..6
              \* 2022-01-03 is a Monday
              /\ (old["pickup_hour"] \div MinutesPerDay - 2 - new["day_of_week"])
                    % 7 = 0

\* C5 (as stated): for every X with pickup_hour and pickup_location_id,
\* transform returns as many rows, without these two columns, with every
\* other column of X unchanged, and with hour in 0..23 and day_of_week in
\* 0..6 computed from pickup_hour.
C5_EveryOtherColumnKept ==
    (pc = "engineered" /\ {"pickup_hour", "pickup_location_id"} \subseteq arg_X.cols)
        => TemporalComputed(arg_X.cols \ {"pickup_hour", "pickup_location_id"})

\* C5 (amended): as stated, for every other column of X except hour and
\* day_of_week, which transform overwrites when X already has them.
C5_TemporalFeatures ==
    (pc = "engineered" /\ {"pickup_hour", "pickup_location_id"} \subseteq arg_X.cols)
        => TemporalComputed(arg_X.cols \ {"pickup_hour", "pickup_location_id",
                                          "hour", "day_of_week"})

\* C5 witness: transform returned for a frame of several rows that had neither
\* hour nor day_of_week, one of its rows on a Sunday.
C5_Witness ==
    /\ pc = "engineered"
    /\ error = "none"
    /\ arg_X.cols \cap {"hour", "day_of_week"} = {}
    /\ Len(result.rows) > 1
    /\ \E i \in DOMAIN result.rows : result.rows[i].v["day_of_week"] = 6

(***************************************************************************)
(* The model notebooks: split cell, then fit, predict, score and log.      *)
(***************************************************************************)
\* cutoff_date=datetime(2023, 9, 1, 0, 0, 0)
cutoff_date == FromIsoFormat(<<2023, 9, 1, 0, 0>>)

\* a plausible slip: the row at the cut-off goes to the training side too
IsTrainRowInclusive(row, cutoff) == row.v["pickup_hour"] <= cutoff

\* src.data_utils.split_time_series_data: the masks of the two sides
IsTrainRow(row, cutoff) == row.v["pickup_hour"] < cutoff
IsTestRow(row, cutoff) == row.v["pickup_hour"] >= cutoff

\* src.data_utils.split_time_series_data(df, cutoff_date, target_column):
\* the rows before the cut-off and the rows from it on, each as features
\* (every column but the target) and target
split_time_series_data(frame, cutoff, target_column) ==
    LET Train(r) == IsTrainRow(r, cutoff)
        Test(r) == IsTestRow(r, cutoff)
        train_data == [cols |-> frame.cols, rows |-> SelectSeq(frame.rows, Train)]
        test_data == [cols |-> frame.cols, rows |-> SelectSeq(frame.rows, Test)]
        features == frame.cols \ {target_column}
    IN  [X_train |-> Project(train_data, features),
         y_train |-> [i \in DOMAIN train_data.rows |->
                        train_data.rows[i].v[target_column]],
         X_test |-> Project(test_data, features),
         y_test |-> [i \in DOMAIN test_data.rows |->
                       test_data.rows[i].v[target_column]]]

\* [c for c in X_train.columns if c.startswith("rides_")]
past_ride_columns(frame) ==
    frame.cols \cap {"rides_t-672", "rides_t-504", "rides_t-336",
                     "rides_t-168", "rides_t-1"}

\* X_train_only_numeric = X_train[past_ride_columns]
X_train_only_numeric == Project(X_train, past_ride_columns(X_train))

\* a plausible slip: the test features taken from the training rows
X_test_from_train == Project(X_train, past_ride_columns(X_train))

\* X_test_only_numeric = X_test[past_ride_columns]
X_test_only_numeric == Project(X_test, past_ride_columns(X_train))

RECURSIVE SumSeq(_)
SumSeq(q) == IF q = <<>> THEN 0 ELSE Head(q) + SumSeq(Tail(q))

Abs(n) == IF n < 0 THEN -n ELSE n

Ids(frame) == {frame.rows[i].id : i \in DOMAIN frame.rows}

\* the steps of a Pipeline before its regressor: the two feature helpers for
\* the pipeline of the notebook, none for a bare regressor
Preprocessed(kind, frame) ==
    IF kind = "Pipeline" THEN TemporalFrame(AverageFrame(frame)) ELSE frame

\* estimator.fit(X, y): the regressors are third-party code, modelled as a
\* deterministic function of the hyper-parameter and of the rows fitted on
Fit(kind, params, frame, y) ==
    [kind |-> kind,
     params |-> params,
     columns |-> frame.cols,
     features |-> Preprocessed(kind, frame).cols,
     fit_ids |-> Ids(frame),
     level |-> SumSeq(y) \div Len(y)]

\* estimator.predict(X), one prediction per row
Predict(m, frame) ==
    LET features == Preprocessed(m.kind, frame)
    IN  [i \in DOMAIN features.rows |->
            IF m.params[2] = 2 THEN m.level
            ELSE (m.level + features.rows[i].v["rides_t-1"]) \div 2]

\* sklearn.metrics.mean_absolute_error(y_true, y_pred), as a fraction
mean_absolute_error(y_true, y_pred) ==
    [num |-> SumSeq([i \in DOMAIN y_true |-> Abs(y_true[i] - y_pred[i])]),
     den |-> Len(y_true)]

\* the regressor, its hyper-parameter and the experiment of a notebook
Regressor(nb) ==
    IF nb = "xgboost" THEN <<"XGBRegressor", <<"max_depth", 10>>, "XGBoost">>
    ELSE <<"LGBMRegressor", <<"num_leaves", 31>>, "LGBMRegressor">>

\* param_distributions, lines 555-568
num_leaves == {2, 50, 70, 256}

\* KFold(3) of RandomizedSearchCV(cv=3): the positions of fold k of n rows
Fold(n, k) ==
    LET Size(j) == n \div 3 + (IF j <= n % 3 THEN 1 ELSE 0)
        first == 1 + SumSeq([j \in 1..(k - 1) |-> Size(j)])
    IN  first..(first + Size(k) - 1)

\* the rows RandomizedSearchCV fits on for fold k: those outside the fold
FoldTrainIds(frame, k) ==
    {frame.rows[i].id : i \in DOMAIN frame.rows \ Fold(Len(frame.rows), k)}

\* the datasets a model notebook reads: up to MaxRows sample rows
Tables ==
    {SampleFrame(picked, FeatureCols \cup {"target"}) :
        picked \in SubSeqs(Len(SampleData), MaxRows)}

\* read_parquet and split_time_series_data(df, cutoff_date, "target")
SplitCell ==
    /\ pc = "start"
    /\ \E table \in Tables :
         LET parts == split_time_series_data(table, cutoff_date, "target")
         IN  /\ df' = table
             /\ X_train' = parts.X_train
             /\ y_train' = parts.y_train
             /\ X_test' = parts.X_test
             /\ y_test' = parts.y_test
    /\ pc' = "split"
    /\ UNCHANGED <<error, notebook, fit_log, model, predictions, test_mae, logged>>
    /\ UNCHANGED <<fetchVars, helperVars>>

\* the last cell of the XGBoost and LightGBM notebooks: fit on
\* X_train_only_numeric, predict X_test_only_numeric, score, log
FitPredictLogCell ==
    /\ pc = "split"
    /\ notebook \in {"xgboost", "lightgbm"}
    /\ IF X_train.rows = <<>>
       THEN /\ error' = "ValueError: fit on 0 samples"
            /\ pc' = "failed"
            /\ UNCHANGED <<fit_log, model, predictions, test_mae, logged>>
       ELSE LET fitted == Fit(Regressor(notebook)[1], Regressor(notebook)[2],
                              X_train_only_numeric, y_train)
                predicted == Predict(fitted, X_test_only_numeric)
            IN  /\ fit_log' = fit_log \cup {fitted.fit_ids}
                /\ model' = fitted
                /\ IF predicted = <<>> \/ Len(predicted) # Len(y_test)
                   THEN /\ error' = "ValueError: inconsistent numbers of samples"
                        /\ pc' = "failed"
                        /\ UNCHANGED <<predictions, test_mae, logged>>
                   ELSE /\ predictions' = predicted
                        /\ test_mae' = mean_absolute_error(y_test, predicted)
                        /\ logged' = [model |-> fitted,
                                      input_example |-> X_test_only_numeric,
                                      experiment |-> Regressor(notebook)[3],
                                      metric_name |-> "mean_absolute_error",
                                      score |-> test_mae']
                        /\ error' = "none"
                        /\ pc' = "logged"
    /\ UNCHANGED <<notebook, df, X_train, y_train, X_test, y_test>>
    /\ UNCHANGED <<fetchVars, helperVars>>

\* lines 571-592: random_search.fit(X_train, y_train), best_model, y_pred.
\* The candidate kept is the library's choice.  The refit and the prediction
\* pass X_train and X_test themselves to average_rides_last_4_weeks, which
\* adds its column to them.
SearchCell ==
    /\ pc = "split"
    /\ notebook = "pipeline"
    /\ IF Len(X_train.rows) < 3
       THEN /\ error' = "ValueError: Cannot have number of splits n_splits=3 greater than the number of samples"
            /\ pc' = "failed"
            /\ UNCHANGED <<fit_log, model, X_train, X_test>>
       ELSE /\ \E best \in num_leaves :
                 model' = Fit("Pipeline", <<"lgbmregressor__num_leaves", best>>,
                              X_train, y_train)
            /\ fit_log' = fit_log \cup {FoldTrainIds(X_train, k) : k \in 1..3}
                                  \cup {Ids(X_train)}
            /\ X_train' = AverageFrame(X_train)
            /\ IF X_test.rows = <<>>
               THEN /\ error' = "ValueError: predict on 0 samples"
                    /\ pc' = "failed"
                    /\ X_test' = X_test
               ELSE /\ error' = "none"
                    /\ pc' = "searched"
                    /\ X_test' = AverageFrame(X_test)
    /\ UNCHANGED <<notebook, df, y_train, y_test, predictions, test_mae, logged>>
    /\ UNCHANGED <<fetchVars, helperVars>>

\* lines 660-664: predictions = best_model.predict(X_test), test_mae, log
LogCell ==
    /\ pc = "searched"
    /\ predictions' = Predict(model, X_test)
    /\ test_mae' = mean_absolute_error(y_test, predictions')
    /\ X_test' = AverageFrame(X_test)
    /\ logged' = [model |-> model,
                  input_example |-> X_test',
                  experiment |-> "LGBMRegressorHyper",
                  metric_name |-> "mean_absolute_error",
                  score |-> test_mae']
    /\ pc' = "logged"
    /\ UNCHANGED <<error, notebook, df, X_train, y_train, y_test, fit_log, model>>
    /\ UNCHANGED <<fetchVars, helperVars>>

InitTrain ==
    /\ pc = "start"
    /\ error = "none"
    /\ FetchIdle(<<>>)
    /\ source_tz = "naive"
    /\ HelpersIdle
    /\ \E nb \in {"xgboost", "lightgbm", "pipeline"} : TrainIdle(nb)

NextTrain == SplitCell \/ FitPredictLogCell \/ SearchCell \/ LogCell

SpecTrain == InitTrain /\ [][NextTrain]_vars

(***************************************************************************)
(* Claims about the model notebooks, checked under SpecTrain.              *)
(***************************************************************************)
SplitDone == pc \in {"split", "searched", "logged", "failed"}

\* the index labels, in df, of the rows before the cut-off and from it on
TrainIds == {df.rows[i].id : i \in {j \in DOMAIN df.rows :
                df.rows[j].v["pickup_hour"] < cutoff_date}}
TestIds == {df.rows[i].id : i \in {j \in DOMAIN df.rows :
                df.rows[j].v["pickup_hour"] >= cutoff_date}}

\* the row of df with index label id
DfRow(id) == (CHOOSE r \in {df.rows[i] : i \in DOMAIN df.rows} : r.id = id).v

\* C6: the split at cutoff_date leaks nothing: every training row is earlier
\* than cutoff_date, every test row at or after it, every row of the input is
\* on exactly one side (once), X and y of a side have the same number of rows
\* (y the targets of the rows of X), and X_train and X_test have the same
\* columns.
C6_SplitByTime ==
    pc = "split" =>
        /\ \A i \in DOMAIN X_train.rows :
              /\ X_train.rows[i].v["pickup_hour"] < cutoff_date
              /\ y_train[i] = DfRow(X_train.rows[i].id)["target"]
        /\ \A i \in DOMAIN X_test.rows :
              /\ X_test.rows[i].v["pickup_hour"] >= cutoff_date
              /\ y_test[i] = DfRow(X_test.rows[i].id)["target"]
        /\ Ids(X_train) \cup Ids(X_test) = Ids(df)
        /\ Ids(X_train) \cap Ids(X_test) = {}
        /\ Len(X_train.rows) + Len(X_test.rows) = Len(df.rows)
        /\ Len(y_train) = Len(X_train.rows)
        /\ Len(y_test) = Len(X_test.rows)
        /\ X_train.cols = X_test.cols
        /\ X_train.cols = df.cols \ {"target"}

\* C6 witness: a split with rows on both sides, one of them exactly at the
\* cut-off and one in the last hour before it.
C6_Witness ==
    /\ pc = "split"
    /\ \E i \in DOMAIN X_test.rows : X_test.rows[i].v["pickup_hour"] = cutoff_date
    /\ \E i \in DOMAIN X_train.rows :
          X_train.rows[i].v["pickup_hour"] = cutoff_date - MinutesPerHour
    /\ Len(X_train.rows) > 1

\* the mean absolute error between the targets of the test rows of df and the
\* predictions m makes for them from the columns it was fitted with
TestError(m) ==
    LET test == [cols |-> df.cols,
                 rows |-> SelectSeq(df.rows,
                              LAMBDA r : r.v["pickup_hour"] >= cutoff_date)]
        predicted == Predict(m, Project(test, m.columns))
    IN  [num |-> SumSeq([i \in DOMAIN test.rows |->
                           Abs(test.rows[i].v["target"] - predicted[i])]),
         den |-> Cardinality(TestIds)]

\* C7: in every model notebook the score logged as mean_absolute_error is the
\* mean absolute error between y_test and the predictions, on the test split,
\* of the very model that is logged, and no test row was ever passed to a fit:
\* the logged model was fitted on the training split.
C7_LoggedScoreIsTestMae ==
    /\ SplitDone => \A fitted \in fit_log : fitted \subseteq TrainIds
    /\ pc = "logged" =>
          /\ logged.metric_name = "mean_absolute_error"
          /\ logged.model = model
          /\ logged.score = TestError(logged.model)
          /\ logged.score = test_mae
          /\ logged.model.fit_ids = TrainIds
          /\ TrainIds \in fit_log

\* C7 witness: the pipeline notebook logged a model with a non-zero error
\* after a search that fitted on folds of the training split.
C7_Witness ==
    /\ pc = "logged"
    /\ notebook = "pipeline"
    /\ logged.score.num > 0
    /\ Cardinality(fit_log) > 1
    /\ Cardinality(TestIds) > 0

====
